---- MODULE Spec2Model ----
(***************************************************************************)
(* gitstats (src/main.go): per-author, per-month insertion/deletion        *)
(* statistics.  main() loops over the requested months, runs `git log      *)
(* --shortstat` on one directory or on every subdirectory, parses the      *)
(* output line by line into a scan-local map, folds that map into the      *)
(* global aggregate gb, and finally hands gb to printStats.                *)
(*                                                                         *)
(* Text is modelled at token level: a line is a sequence of tokens, a      *)
(* token is a decimal number (its digits) or a word; the raw output of git *)
(* is a sequence of tokens and newline tokens.  The empty string is the    *)
(* empty sequence.                                                         *)
(***************************************************************************)
EXTENDS Integers, Sequences, FiniteSets, TLC

\* ------------------------------------------------------------------ bounds
\* longest raw output, in lines, of the scan of SpecParse
MaxLines == 5
\* largest value of the -m flag
MaxMonths == 2

\* ------------------------------------------------------------------ text
Num(ds) == [t |-> "num", d |-> ds, w |-> ""]
Word(s) == [t |-> "word", d |-> <<>>, w |-> s]
NL == [t |-> "nl", d |-> <<>>, w |-> ""]

\* the empty string
EmptyStr == <<>>

\* the lines git prints with --pretty=%ae --shortstat
AliceLine == <<Word("alice@x")>>
BobLine == <<Word("bob@x")>>
Stat30 == <<Num(<<1>>), Word("file changed"), Num(<<3>>), Word("insertions(+)")>>
Stat11 ==
  <<Num(<<2>>), Word("files changed"), Num(<<1>>), Word("insertion(+)"),
    Num(<<1>>), Word("deletion(-)")>>
Stat012 == <<Num(<<1>>), Word("file changed"), Num(<<1, 2>>), Word("deletions(-)")>>

Stat00 == <<Num(<<1>>), Word("file changed")>>

\* the lines the scan of SpecClause is made of: statistics lines with an
\* insertions clause only, with both clauses, with a deletions clause only
\* and with neither
ClauseLines == {AliceLine, Stat30, Stat11, Stat012, Stat00}

\* the lines the scan of SpecParse is made of
ParseLines == {EmptyStr, AliceLine, BobLine, Stat30, Stat11}

SeqsUpTo(S, n) == UNION {[1..k -> S] : k \in 0..n}

RECURSIVE Join(_)
\* the text whose lines are ls: the lines separated by newlines
Join(ls) ==
  IF Len(ls) = 0 THEN EmptyStr
  ELSE IF Len(ls) = 1 THEN ls[1]
  ELSE ls[1] \o <<NL>> \o Join(Tail(ls))

\* raw outputs: every text of at most n lines over the alphabet S
OutputsOver(S, n) == {Join(ls) : ls \in SeqsUpTo(S, n)}

RECURSIVE SplitFrom(_, _, _)
SplitFrom(s, k, cur) ==
  IF k > Len(s) THEN <<cur>>
  ELSE IF s[k] = NL THEN <<cur>> \o SplitFrom(s, k + 1, EmptyStr)
  ELSE SplitFrom(s, k + 1, Append(cur, s[k]))

\* strings.Split(s, "\n"): always at least one element
Split(s) == SplitFrom(s, 1, EmptyStr)

\* strings.Contains(line, w) for the marker words of a statistics line
Contains(line, w) == \E k \in 1..Len(line) : line[k] = Word(w)

RECURSIVE DecimalValue(_)
\* fmt.Sscanf(digits, "%d", &n)
DecimalValue(ds) ==
  IF Len(ds) = 0 THEN 0
  ELSE 10 * DecimalValue(SubSeq(ds, 1, Len(ds) - 1)) + ds[Len(ds)]

\* regexp (\d+) <unit>s?\(<sign>\): the positions of the line where it matches
MatchesAt(line, units) ==
  {k \in 1..(Len(line) - 1) : line[k].t = "num" /\ line[k + 1].t = "word"
                               /\ line[k + 1].w \in units}

\* FindStringSubmatch: the leftmost match, as <<whole, group 1>>, or empty
FindStringSubmatch(line, units) ==
  LET ms == MatchesAt(line, units) IN
  IF ms = {} THEN <<>>
  ELSE LET k == CHOOSE x \in ms : \A y \in ms : x <= y
       IN <<SubSeq(line, k, k + 1), line[k].d>>

insertionRegex == {"insertion(+)", "insertions(+)"}
deletionRegex == {"deletion(-)", "deletions(-)"}

\* ------------------------------------------------------------------ dates
MonthNames ==
  <<"January", "February", "March", "April", "May", "June", "July",
    "August", "September", "October", "November", "December">>

IsLeap(y) == (y % 4 = 0 /\ y % 100 # 0) \/ y % 400 = 0

DaysIn(y, m) ==
  IF m = 2 THEN (IF IsLeap(y) THEN 29 ELSE 28)
  ELSE IF m \in {4, 6, 9, 11} THEN 30 ELSE 31

\* a month outside 1..12 carried into the year
NormMonth(y, m) == [y |-> y + ((m - 1) \div 12), m |-> ((m - 1) % 12) + 1]

\* time.Date normalisation: a day outside the month rolls into the month
\* after (or before) it; days here stay within 0..31
NormDate(y, m, d) ==
  LET ym == NormMonth(y, m) IN
  IF d < 1
  THEN LET p == NormMonth(ym.y, ym.m - 1)
       IN [y |-> p.y, m |-> p.m, d |-> DaysIn(p.y, p.m) + d]
  ELSE IF d > DaysIn(ym.y, ym.m)
  THEN LET n == NormMonth(ym.y, ym.m + 1)
       IN [y |-> n.y, m |-> n.m, d |-> d - DaysIn(ym.y, ym.m)]
  ELSE [y |-> ym.y, m |-> ym.m, d |-> d]

\* Time.AddDate(years, months, days)
AddDate(t, years, months, days) == NormDate(t.y + years, t.m + months, t.d + days)

\* year, month, _ := time.Now().AddDate(0, -i, 0).Date();
\* time.Date(year, month, 1, ...)
FirstDayOfMonth(t, k) ==
  LET back == AddDate(t, 0, 0 - k, 0) IN [y |-> back.y, m |-> back.m, d |-> 1]

\* firstDayOfMonth.AddDate(0, 1, -1)
LastDayOfMonth(first) == AddDate(first, 0, 1, -1)

\* Format("2006-01-02")
FormatDate(t) == <<t.y, t.m, t.d>>

\* FormatMonth applied to the month after t: the label of another month than
\* the one the scan filters on
FormatMonth_monthAfter(t) ==
  LET n == NormMonth(t.y, t.m + 1) IN <<n.y, n.m, MonthNames[n.m], n.y>>

\* Format("(2006-01) January 2006")
FormatMonth(t) == <<t.y, t.m, MonthNames[t.m], t.y>>

\* the days on which a run starts: the last day of a long month, and a day
\* of January, whose month before lies in the year before.  A run is taken
\* to end on the day it starts, so every time.Now() of a run returns that day.
StartDays == {[y |-> 2024, m |-> 3, d |-> 31], [y |-> 2024, m |-> 1, d |-> 15]}

\* ------------------------------------------------------------------ maps
\* an empty Go map
EmptyMap == [x \in {} |-> 0]

\* m[k] = v
Put(m, k, v) == [x \in (DOMAIN m) \cup {k} |-> IF x = k THEN v ELSE m[x]]

\* m[k] of a map[string][2]int: the zero value for a missing key
GetCounts(m, k) == IF k \in DOMAIN m THEN m[k] ELSE <<0, 0>>

\* m[k] of a map[string]ChangesStats: the zero value for a missing key
GetChanges(m, k) == IF k \in DOMAIN m THEN m[k] ELSE [Insertions |-> 0, Deletions |-> 0]

\* ------------------------------------------------------------------ parser
\* the test of lines 83-84
IsStatsLine(line) == Contains(line, "files changed") \/ Contains(line, "file changed")

\* InsertionsOf with a pattern that accepts either unit word: the count of a
\* deletions clause is taken for insertions when no insertions clause precedes
InsertionsOf_eitherUnit(line) ==
  LET insertions == FindStringSubmatch(line, insertionRegex \cup deletionRegex)
  IN IF Len(insertions) > 0 THEN DecimalValue(insertions[2]) ELSE 0

\* lines 85, 88-91
InsertionsOf(line) ==
  LET insertions == FindStringSubmatch(line, insertionRegex)
  IN IF Len(insertions) > 0 THEN DecimalValue(insertions[2]) ELSE 0

\* lines 86, 88, 92-94
DeletionsOf(line) ==
  LET deletions == FindStringSubmatch(line, deletionRegex)
  IN IF Len(deletions) > 0 THEN DecimalValue(deletions[2]) ELSE 0

\* LineStep with line 101 left out: the deletions are not added to the total
LineStep_noTotalDeletions(st, line) ==
  IF line = EmptyStr THEN st
  ELSE IF IsStatsLine(line)
  THEN LET ins == InsertionsOf(line)
           del == DeletionsOf(line)
           userStats == GetCounts(st.stats, st.author)
       IN [st EXCEPT !.stats = Put(st.stats, st.author,
                                   <<userStats[1] + ins, userStats[2] + del>>),
                     !.totalInsertions = @ + ins]
  ELSE [st EXCEPT !.author = line]

\* LineStep with the author register cleared after each statistics line
LineStep_authorForgotten(st, line) ==
  IF line = EmptyStr THEN st
  ELSE IF IsStatsLine(line)
  THEN LET ins == InsertionsOf(line)
           del == DeletionsOf(line)
           userStats == GetCounts(st.stats, st.author)
       IN [st EXCEPT !.stats = Put(st.stats, st.author,
                                   <<userStats[1] + ins, userStats[2] + del>>),
                     !.totalInsertions = @ + ins,
                     !.totalDeletions = @ + del,
                     !.author = EmptyStr]
  ELSE [st EXCEPT !.author = line]

\* LineStep with an entry of zero counts made for the author at line 104
LineStep_authorEntry(st, line) ==
  IF line = EmptyStr THEN st
  ELSE IF IsStatsLine(line)
  THEN LET ins == InsertionsOf(line)
           del == DeletionsOf(line)
           userStats == GetCounts(st.stats, st.author)
       IN [st EXCEPT !.stats = Put(st.stats, st.author,
                                   <<userStats[1] + ins, userStats[2] + del>>),
                     !.totalInsertions = @ + ins,
                     !.totalDeletions = @ + del]
  ELSE [st EXCEPT !.author = line,
                  !.stats = Put(st.stats, line, GetCounts(st.stats, line))]

\* one turn of the loop of lines 78-106 on the state
\* st = [author, stats, totalInsertions, totalDeletions]
LineStep(st, line) ==
  IF line = EmptyStr THEN st
  ELSE IF IsStatsLine(line)
  THEN LET ins == InsertionsOf(line)
           del == DeletionsOf(line)
           userStats == GetCounts(st.stats, st.author)
       IN [st EXCEPT !.stats = Put(st.stats, st.author,
                                   <<userStats[1] + ins, userStats[2] + del>>),
                     !.totalInsertions = @ + ins,
                     !.totalDeletions = @ + del]
  ELSE [st EXCEPT !.author = line]

\* AccumulateAuthor with = for += at lines 115-116: the cell is overwritten
AccumulateAuthor_overwrite(S, a, counts, monthStr) ==
  LET S1 == IF a \in DOMAIN S THEN S ELSE Put(S, a, EmptyMap)
  IN Put(S1, a,
         Put(S1[a], monthStr,
             [Insertions |-> counts[1], Deletions |-> counts[2]]))

\* one turn of the loop of lines 109-118: the counts of one author of the
\* scan added to the cell of monthStr
AccumulateAuthor(S, a, counts, monthStr) ==
  LET S1 == IF a \in DOMAIN S THEN S ELSE Put(S, a, EmptyMap)
      authorMonthStats == GetChanges(S1[a], monthStr)
  IN Put(S1, a,
         Put(S1[a], monthStr,
             [Insertions |-> authorMonthStats.Insertions + counts[1],
              Deletions |-> authorMonthStats.Deletions + counts[2]]))

\* ScanErrorNext with the `return` of line 141 also after line 134: the
\* error of one subdirectory ends the run
ScanErrorNext_abortAll(all, month, idx) ==
  [pc |-> "done", i |-> month, dirIdx |-> idx]

\* ScanErrorNext without the `return` of line 141: the month loop goes on
ScanErrorNext_continue(all, month, idx) ==
  IF all THEN [pc |-> "dirloop", i |-> month, dirIdx |-> idx + 1]
  ELSE [pc |-> "loop", i |-> month + 1, dirIdx |-> idx]

\* ScanErrorNext calling processDir again on the directory that failed
ScanErrorNext_retry(all, month, idx) ==
  IF all THEN [pc |-> "scan", i |-> month, dirIdx |-> idx]
  ELSE [pc |-> "done", i |-> month, dirIdx |-> idx]

\* what main does with the error of processDir: lines 133-135 with -a,
\* lines 139-142 without
ScanErrorNext(all, month, idx) ==
  IF all THEN [pc |-> "dirloop", i |-> month, dirIdx |-> idx + 1]
  ELSE [pc |-> "done", i |-> month, dirIdx |-> idx]

\* ScanReturnNext with the loop of line 130 not advancing: the directory
\* just scanned is the next one again
ScanReturnNext_sameDir(all, month, idx) ==
  IF all THEN [pc |-> "dirloop", i |-> month, dirIdx |-> idx]
  ELSE [pc |-> "loop", i |-> month, dirIdx |-> idx]

\* where main goes on after processDir returned nil
ScanReturnNext(all, month, idx) ==
  IF all THEN [pc |-> "dirloop", i |-> month, dirIdx |-> idx + 1]
  ELSE [pc |-> "loop", i |-> month + 1, dirIdx |-> idx]

RECURSIVE ParseAll(_, _, _)
\* the loop of lines 78-106 from line k on
ParseAll(st, ls, k) ==
  IF k > Len(ls) THEN st ELSE ParseAll(LineStep(st, ls[k]), ls, k + 1)

RECURSIVE AccumulateAll(_, _, _, _)
\* the loop of lines 109-118, visiting the authors in the given order
AccumulateAll(S, st, order, monthStr) ==
  IF Len(order) = 0 THEN S
  ELSE AccumulateAll(AccumulateAuthor(S, Head(order), st[Head(order)], monthStr),
                     st, Tail(order), monthStr)

\* the orders in which `range` may yield the keys of a map
Orders(K) == {o \in [1..Cardinality(K) -> K] : \A x \in K : \E k \in DOMAIN o : o[k] = x}

\* processDir on a successful invocation, as a whole: the aggregates it may
\* leave, one for each order of the accumulation loop;
\* g = [Stats, totalInsertions, totalDeletions]
processDir(g, first, output) ==
  LET st == ParseAll([author |-> EmptyStr, stats |-> EmptyMap,
                      totalInsertions |-> g.totalInsertions,
                      totalDeletions |-> g.totalDeletions], Split(output), 1)
  IN {[Stats |-> AccumulateAll(g.Stats, st.stats, o, FormatMonth(first)),
       totalInsertions |-> st.totalInsertions,
       totalDeletions |-> st.totalDeletions] : o \in Orders(DOMAIN st.stats)}

\* ------------------------------------------------------------------ history
\* The sums the aggregate is measured against, computed from the lines of a
\* scan position by position, not by the parser's loop.
StatsIdx(ls) == {k \in 1..Len(ls) : ls[k] # EmptyStr /\ IsStatsLine(ls[k])}
AuthorIdx(ls) == {k \in 1..Len(ls) : ls[k] # EmptyStr /\ ~IsStatsLine(ls[k])}

\* a statistics line has an author line before it
HasAuthor(ls, k) == \E j \in AuthorIdx(ls) : j < k

\* the most recent author line before line k; the empty string when there is
\* none (the value the register starts with)
AuthorOf(ls, k) ==
  IF HasAuthor(ls, k)
  THEN ls[CHOOSE j \in AuthorIdx(ls) :
            j < k /\ \A j2 \in AuthorIdx(ls) : j2 < k => j2 <= j]
  ELSE EmptyStr

RECURSIVE SumOver(_, _)
SumOver(f, S) ==
  IF S = {} THEN 0
  ELSE LET x == CHOOSE y \in S : TRUE IN f[x] + SumOver(f, S \ {x})

\* the sum of the statistics lines of ls attributed to author a
ScanSum(ls, a) ==
  LET mine == {k \in StatsIdx(ls) : AuthorOf(ls, k) = a}
  IN [Insertions |-> SumOver([k \in mine |-> InsertionsOf(ls[k])], mine),
      Deletions |-> SumOver([k \in mine |-> DeletionsOf(ls[k])], mine)]

ScanAuthors(ls) == {AuthorOf(ls, k) : k \in StatsIdx(ls)}

\* the sums of one more successful scan added to the history
Attribute(attr, ls, monthStr) ==
  LET new == {<<a, monthStr>> : a \in ScanAuthors(ls)}
  IN [c \in (DOMAIN attr) \cup new |->
        LET old == IF c \in DOMAIN attr THEN attr[c]
                   ELSE [Insertions |-> 0, Deletions |-> 0]
            add == IF c \in new THEN ScanSum(ls, c[1])
                   ELSE [Insertions |-> 0, Deletions |-> 0]
        IN [Insertions |-> old.Insertions + add.Insertions,
            Deletions |-> old.Deletions + add.Deletions]]

\* ------------------------------------------------------------------ report
\* the characters of a month key up to its closing bracket, "(2006-01)", as
\* byte values; two keys that agree on them are the same key
MonthChars(key) ==
  LET y == key[1]
      m == key[2]
  IN <<40, 48 + (y \div 1000), 48 + ((y \div 100) % 10), 48 + ((y \div 10) % 10),
       48 + (y % 10), 45, 48 + (m \div 10), 48 + (m % 10), 41>>

\* a < b for two strings of the same length, byte by byte
StringLess(a, b) ==
  \E k \in 1..Len(a) : a[k] < b[k] /\ \A j \in 1..(k - 1) : a[j] = b[j]

\* sort.Strings on a set of month keys
SortStrings(K) ==
  CHOOSE o \in Orders(K) :
    \A j \in DOMAIN o, k \in DOMAIN o :
      j < k => ~StringLess(MonthChars(o[k]), MonthChars(o[j]))

\* lessMonthStats with < for > at line 194: ascending insertions
lessMonthStats_ascending(x, y) == x.Insertions < y.Insertions

\* the less function of lines 193-195
lessMonthStats(x, y) == x.Insertions > y.Insertions

\* the less function of lines 226-228
lessSortedAuthors(x, y) == x.Insertions > y.Insertions

\* lines 159-169
monthsOrdered(S) == SortStrings(UNION {DOMAIN S[a] : a \in DOMAIN S})

\* sort.Slice of lines 193-195 on elements appended in the order a map yields
\* them: every arrangement in which no element is less than one before it
SortMonthStats(R) ==
  {o \in Orders(R) :
     \A j \in DOMAIN o, k \in DOMAIN o : j < k => ~lessMonthStats(o[k], o[j])}

\* sort.Slice of lines 226-228, likewise
SortSortedAuthors(R) ==
  {o \in Orders(R) :
     \A j \in DOMAIN o, k \in DOMAIN o : j < k => ~lessSortedAuthors(o[k], o[j])}

\* lines 183-190: the authors with a cell in the month
monthStats(S, month) ==
  {[Author |-> a, Insertions |-> S[a][month].Insertions] :
     a \in {x \in DOMAIN S : month \in DOMAIN S[x]}}

\* lines 175, 187: the month's subtotal of insertions
monthInsertions(S, month) ==
  LET as == {x \in DOMAIN S : month \in DOMAIN S[x]}
  IN SumOver([a \in as |-> S[a][month].Insertions], as)

\* lines 172-204: what may be written for one month
MonthBlocks(S, month) ==
  {[month |-> month, rows |-> o, totalInsertions |-> monthInsertions(S, month)] :
     o \in SortMonthStats(monthStats(S, month))}

\* authorInsertions with = for += at line 211: one month's number is kept
authorInsertions_oneMonth(S, a) ==
  S[a][CHOOSE m \in DOMAIN S[a] : TRUE].Insertions

\* lines 208-213: an author's insertions over all months
authorInsertions(S, a) ==
  SumOver([m \in DOMAIN S[a] |-> S[a][m].Insertions], DOMAIN S[a])

\* lines 216-228
sortedAuthors(S) ==
  SortSortedAuthors({[Author |-> a, Insertions |-> authorInsertions(S, a)] :
                       a \in DOMAIN S})

RECURSIVE BlockSeqs(_, _)
\* lines 172-204: what may be written for the months mo, in that order
BlockSeqs(S, mo) ==
  IF Len(mo) = 0 THEN {<<>>}
  ELSE {<<h>> \o t : h \in MonthBlocks(S, Head(mo)), t \in BlockSeqs(S, Tail(mo))}

\* printStats(globalStats): what it may write, as a sequence of no report
\* (line 156-158) or of one report
printStats(g) ==
  IF Cardinality(DOMAIN g.Stats) = 0 THEN {<<>>}
  ELSE {<<[blocks |-> b, developers |-> d, total |-> g.totalInsertions]>> :
          b \in BlockSeqs(g.Stats, monthsOrdered(g.Stats)),
          d \in sortedAuthors(g.Stats)}

\* ------------------------------------------------------------------ state
VARIABLES
  allRepos,         \* flag -a
  monthsBack,       \* flag -m
  now,              \* the day time.Now() returns
  entries,          \* what the base path holds: os.ReadDir's result
  i,                \* the month loop's counter
  pc,               \* where main is
  firstDayOfMonth,  \* of the iteration in progress
  dirs,             \* the listing of the iteration in progress
  dirIdx,           \* the position of `for _, dir := range dirs`
  dir,              \* the argument of processDir
  lines,            \* processDir: the output split into lines
  lineIdx,          \* processDir: the position of `for _, line := range lines`
  author,           \* processDir: the author register
  stats,            \* processDir: the scan's map author -> [2]int
  todo,             \* processDir: the keys `range stats` has still to visit
  Stats,            \* gb.Stats
  totalInsertions,  \* gb.totalInsertions
  totalDeletions,   \* gb.totalDeletions
  reported,         \* the arguments printStats was called with, in order
  printed,          \* what printStats has written: nothing, or one report
  exitCode,         \* the process's exit status; Running until it ends
  scanLog,          \* history: the invocations of git, in order
  attributed,       \* history: (author, month) -> sums over the successful scans
  listFailed        \* history: os.ReadDir returned an error

flags == <<allRepos, monthsBack, now, entries>>
ctl == <<i, pc, firstDayOfMonth, dirs, dirIdx, dir>>
locals == <<lines, lineIdx, author, stats, todo>>
gb == <<Stats, totalInsertions, totalDeletions>>
hist == <<scanLog, attributed, listFailed>>
vars == <<flags, ctl, locals, gb, reported, printed, exitCode, hist>>

Running == 0 - 1

\* flag -p: the base path, and filepath.Join(baseDir, name)
baseDir == <<"base">>
JoinPath(base, name) == base \o <<name>>

\* an entry of a listing (os.DirEntry)
Entry(name, isDir) == [name |-> name, isDir |-> isDir]

\* the listings of the base path, sorted by name: nothing, a plain file, one
\* repository, two repositories with a plain file between them
Listings ==
  {<<>>,
   <<Entry("notes.txt", FALSE)>>,
   <<Entry("app", TRUE)>>,
   <<Entry("app", TRUE), Entry("notes.txt", FALSE), Entry("web", TRUE)>>}

\* what git prints in a scan of a whole run: nothing, an author without
\* statistics, one commit of alice, one of bob, statistics with no author
\* line before them, and two authors with several commits
Outputs ==
  {Join(ls) : ls \in
     {<<>>,
      <<AliceLine, EmptyStr>>,
      <<AliceLine, Stat30, EmptyStr>>,
      <<BobLine, Stat11, EmptyStr>>,
      <<Stat30, EmptyStr>>,
      <<AliceLine, Stat30, Stat11, BobLine, Stat012, EmptyStr>>}}
\* what git prints in the scan of SpecParse: every text of up to MaxLines lines
ParseOutputs == OutputsOver(ParseLines, MaxLines)

NoDay == [y |-> 0, m |-> 1, d |-> 1]

InitRun ==
  /\ i = 0
  /\ pc = "loop"
  /\ firstDayOfMonth = NoDay
  /\ dirs = <<>>
  /\ dirIdx = 0
  /\ dir = baseDir
  /\ lines = <<>>
  /\ lineIdx = 0
  /\ author = EmptyStr
  /\ stats = EmptyMap
  /\ todo = {}
  /\ Stats = EmptyMap
  /\ totalInsertions = 0
  /\ totalDeletions = 0
  /\ reported = <<>>
  /\ printed = <<>>
  /\ exitCode = Running
  /\ scanLog = <<>>
  /\ attributed = EmptyMap
  /\ listFailed = FALSE

\* lines 31-42: an empty aggregate, the flags parsed
Init ==
  /\ allRepos \in BOOLEAN
  /\ monthsBack \in 0..MaxMonths
  /\ now \in StartDays
  /\ entries \in Listings
  /\ InitRun

\* lines 44-49, 123, 138: one more month to scan
MonthIter ==
  /\ pc = "loop"
  /\ i < monthsBack
  /\ firstDayOfMonth' = FirstDayOfMonth(now, i)
  /\ pc' = IF allRepos THEN "readdir" ELSE "scan"
  /\ dir' = IF allRepos THEN dir ELSE baseDir
  /\ UNCHANGED <<flags, i, dirs, dirIdx, locals, gb, reported, printed, exitCode, hist>>

\* LoopExit with line 145 left out: main ends without the report
LoopExit_noReport ==
  /\ pc = "loop"
  /\ i >= monthsBack
  /\ pc' = "done"
  /\ exitCode' = 0
  /\ UNCHANGED <<flags, i, firstDayOfMonth, dirs, dirIdx, dir, locals, gb,
                 reported, printed, hist>>

\* line 44: the loop ends
LoopExit ==
  /\ pc = "loop"
  /\ i >= monthsBack
  /\ pc' = "print"
  /\ UNCHANGED <<flags, i, firstDayOfMonth, dirs, dirIdx, dir, locals, gb,
                 reported, printed, exitCode, hist>>

\* line 124: the base path is listed
ReadDirOk ==
  /\ pc = "readdir"
  /\ dirs' = entries
  /\ dirIdx' = 1
  /\ pc' = "dirloop"
  /\ UNCHANGED <<flags, i, firstDayOfMonth, dir, locals, gb, reported, printed,
                 exitCode, hist>>

\* lines 124-128: the base path cannot be listed; main returns
ReadDirFail ==
  /\ pc = "readdir"
  /\ pc' = "done"
  /\ exitCode' = 0
  /\ listFailed' = TRUE
  /\ UNCHANGED <<flags, i, firstDayOfMonth, dirs, dirIdx, dir, locals, gb,
                 reported, printed, scanLog, attributed>>

\* lines 130-133: the next entry is a directory
EnterDir ==
  /\ pc = "dirloop"
  /\ dirIdx <= Len(dirs)
  /\ dirs[dirIdx].isDir
  /\ dir' = JoinPath(baseDir, dirs[dirIdx].name)
  /\ pc' = "scan"
  /\ UNCHANGED <<flags, i, firstDayOfMonth, dirs, dirIdx, locals, gb,
                 reported, printed, exitCode, hist>>

\* lines 130-131: the next entry is no directory
SkipEntry ==
  /\ pc = "dirloop"
  /\ dirIdx <= Len(dirs)
  /\ ~dirs[dirIdx].isDir
  /\ dirIdx' = dirIdx + 1
  /\ UNCHANGED <<flags, i, pc, firstDayOfMonth, dirs, dir, locals, gb,
                 reported, printed, exitCode, hist>>

\* lines 130, 144: the listing is exhausted, on to the next month
DirsDone ==
  /\ pc = "dirloop"
  /\ dirIdx > Len(dirs)
  /\ i' = i + 1
  /\ pc' = "loop"
  /\ UNCHANGED <<flags, firstDayOfMonth, dirs, dirIdx, dir, locals, gb,
                 reported, printed, exitCode, hist>>

\* the record of one invocation of git (lines 54-69)
Invocation(ok) ==
  [i |-> i, dir |-> dir, since |-> FormatDate(firstDayOfMonth),
   until |-> FormatDate(LastDayOfMonth(firstDayOfMonth)), ok |-> ok]

\* lines 54-76: git succeeds and prints one of outs
Scan(outs) ==
  /\ pc = "scan"
  /\ \E output \in outs :
       /\ lines' = Split(output)
       /\ attributed' = Attribute(attributed, Split(output), FormatMonth(firstDayOfMonth))
  /\ lineIdx' = 1
  /\ author' = EmptyStr
  /\ stats' = EmptyMap
  /\ todo' = {}
  /\ pc' = "parse"
  /\ scanLog' = Append(scanLog, Invocation(TRUE))
  /\ UNCHANGED <<flags, i, firstDayOfMonth, dirs, dirIdx, dir, gb, reported, printed,
                 exitCode, listFailed>>

ScanOk == Scan(Outputs)

ScanOkLong == Scan(ParseOutputs)

\* lines 69-72 and 133-135 or 139-142: git fails, processDir returns the error
ScanFail ==
  /\ pc = "scan"
  /\ scanLog' = Append(scanLog, Invocation(FALSE))
  /\ LET nxt == ScanErrorNext(allRepos, i, dirIdx) IN
       /\ pc' = nxt.pc
       /\ i' = nxt.i
       /\ dirIdx' = nxt.dirIdx
       /\ exitCode' = IF nxt.pc = "done" THEN 0 ELSE exitCode
  /\ UNCHANGED <<flags, firstDayOfMonth, dirs, dir, locals, gb, reported, printed,
                 attributed, listFailed>>

\* lines 78-106: one line of the output
ParseLine ==
  /\ pc = "parse"
  /\ lineIdx <= Len(lines)
  /\ LET st == LineStep([author |-> author, stats |-> stats,
                         totalInsertions |-> totalInsertions,
                         totalDeletions |-> totalDeletions], lines[lineIdx]) IN
       /\ author' = st.author
       /\ stats' = st.stats
       /\ totalInsertions' = st.totalInsertions
       /\ totalDeletions' = st.totalDeletions
  /\ lineIdx' = lineIdx + 1
  /\ UNCHANGED <<flags, ctl, lines, todo, Stats, reported, printed, exitCode, hist>>

\* lines 78, 109: the lines are exhausted, the accumulation begins
ParseEnd ==
  /\ pc = "parse"
  /\ lineIdx > Len(lines)
  /\ todo' = DOMAIN stats
  /\ pc' = "accum"
  /\ UNCHANGED <<flags, i, firstDayOfMonth, dirs, dirIdx, dir, lines, lineIdx,
                 author, stats, gb, reported, printed, exitCode, hist>>

\* lines 109-118: one author of the scan, in the order the map yields them
AccumStep ==
  /\ pc = "accum"
  /\ \E a \in todo :
       /\ Stats' = AccumulateAuthor(Stats, a, stats[a], FormatMonth(firstDayOfMonth))
       /\ todo' = todo \ {a}
  /\ UNCHANGED <<flags, ctl, lines, lineIdx, author, stats, totalInsertions,
                 totalDeletions, reported, printed, exitCode, hist>>

\* line 120 and 130-137 or 139-144: processDir returns nil, its locals end
ScanReturn ==
  /\ pc = "accum"
  /\ todo = {}
  /\ LET nxt == ScanReturnNext(allRepos, i, dirIdx) IN
       /\ pc' = nxt.pc
       /\ i' = nxt.i
       /\ dirIdx' = nxt.dirIdx
  /\ lines' = <<>>
  /\ lineIdx' = 0
  /\ author' = EmptyStr
  /\ stats' = EmptyMap
  /\ UNCHANGED <<flags, firstDayOfMonth, dirs, dir, todo, gb, reported, printed,
                 exitCode, hist>>

\* lines 145-147 and 149-239: the aggregate handed to printStats, the report
\* written, main returns
PrintStats ==
  /\ pc = "print"
  /\ reported' = Append(reported, [Stats |-> Stats,
                                   totalInsertions |-> totalInsertions,
                                   totalDeletions |-> totalDeletions])
  /\ printed' \in printStats([Stats |-> Stats,
                              totalInsertions |-> totalInsertions,
                              totalDeletions |-> totalDeletions])
  /\ pc' = "done"
  /\ exitCode' = 0
  /\ UNCHANGED <<flags, i, firstDayOfMonth, dirs, dirIdx, dir, locals, gb, hist>>

Next ==
  \/ MonthIter
  \/ LoopExit
  \/ ReadDirOk
  \/ ReadDirFail
  \/ EnterDir
  \/ SkipEntry
  \/ DirsDone
  \/ ScanOk
  \/ ScanFail
  \/ ParseLine
  \/ ParseEnd
  \/ AccumStep
  \/ ScanReturn
  \/ PrintStats

Spec == Init /\ [][Next]_vars

\* what git prints in the scans of SpecLive: nothing, or two authors with
\* several commits
LiveOutputs ==
  {Join(ls) : ls \in {<<>>, <<AliceLine, Stat30, Stat11, BobLine, Stat012, EmptyStr>>}}

ScanOkLive == Scan(LiveOutputs)

InitLive ==
  /\ allRepos \in BOOLEAN
  /\ monthsBack \in 0..MaxMonths
  /\ now = [y |-> 2024, m |-> 1, d |-> 15]
  /\ entries \in Listings
  /\ InitRun

NextLive ==
  \/ MonthIter
  \/ LoopExit
  \/ ReadDirOk
  \/ ReadDirFail
  \/ EnterDir
  \/ SkipEntry
  \/ DirsDone
  \/ ScanOkLive
  \/ ScanFail
  \/ ParseLine
  \/ ParseEnd
  \/ AccumStep
  \/ ScanReturn
  \/ PrintStats

\* main is one goroutine and never waits: while it has not returned, its
\* next statement is executed; git and the listing are taken to return
SpecLive == InitLive /\ [][NextLive]_vars /\ WF_vars(NextLive)

\* one scan of one directory, with outputs of up to MaxLines lines
InitParse ==
  /\ allRepos = FALSE
  /\ monthsBack = 1
  /\ now = [y |-> 2024, m |-> 3, d |-> 31]
  /\ entries = <<>>
  /\ InitRun

NextParse ==
  \/ MonthIter
  \/ LoopExit
  \/ ScanOkLong
  \/ ScanFail
  \/ ParseLine
  \/ ParseEnd
  \/ AccumStep
  \/ ScanReturn
  \/ PrintStats

SpecParse == InitParse /\ [][NextParse]_vars

\* what git prints in the scan of SpecClause: every text of up to four lines
ClauseOutputs == OutputsOver(ClauseLines, 4)

ScanOkClause == Scan(ClauseOutputs)

NextClause ==
  \/ MonthIter
  \/ LoopExit
  \/ ScanOkClause
  \/ ScanFail
  \/ ParseLine
  \/ ParseEnd
  \/ AccumStep
  \/ ScanReturn
  \/ PrintStats

\* one scan of one directory, over the four shapes of a statistics line
SpecClause == InitParse /\ [][NextClause]_vars

\* the runs of `-a -m 2` over two repositories and a plain file
InitFold ==
  /\ allRepos = TRUE
  /\ monthsBack = 2
  /\ now \in StartDays
  /\ entries = <<Entry("app", TRUE), Entry("notes.txt", FALSE), Entry("web", TRUE)>>
  /\ InitRun

SpecFold == InitFold /\ [][Next]_vars

\* ------------------------------------------------------------------ claims
\* the (author, month) cells of an aggregate
Cells(S) == UNION {{<<a, m>> : m \in DOMAIN S[a]} : a \in DOMAIN S}

SumInsertions(S) == SumOver([c \in Cells(S) |-> S[c[1]][c[2]].Insertions], Cells(S))
SumDeletions(S) == SumOver([c \in Cells(S) |-> S[c[1]][c[2]].Deletions], Cells(S))

\* no scan is in progress: processDir has not been entered, or has run its
\* last accumulation step, or has returned
BetweenScans == pc \notin {"parse", "accum"} \/ (pc = "accum" /\ todo = {})

Failed == {k \in 1..Len(scanLog) : ~scanLog[k].ok}
Succeeded == {k \in 1..Len(scanLog) : scanLog[k].ok}

\* C1: after every completed scan, successful or failed, in either mode, the
\* running totals equal the sums of Insertions and of Deletions over all
\* (author, month) cells of Stats.
C1_TotalsEqualCellSums ==
  BetweenScans =>
    /\ totalInsertions = SumInsertions(Stats)
    /\ totalDeletions = SumDeletions(Stats)

\* a failed scan and three cells with deletions behind us, between two scans
C1_Witness ==
  /\ pc = "dirloop"
  /\ Failed # {}
  /\ Cardinality(Cells(Stats)) >= 3
  /\ totalDeletions > 0
  /\ totalInsertions = SumInsertions(Stats)

\* C2: every cell Stats[A][M] holds the sums of the insertions and deletions
\* attributed to A over all successful scans whose month key is M, whatever
\* the directory and the loop iteration.
C2_CellsEqualAttributedSums ==
  BetweenScans =>
    \A c \in Cells(Stats) :
      /\ c \in DOMAIN attributed
      /\ Stats[c[1]][c[2]] = attributed[c]

\* a cell that three scans or more have added to
C2_Witness ==
  /\ BetweenScans
  /\ Cardinality(Succeeded) >= 3
  /\ \E c \in Cells(Stats) :
       /\ Stats[c[1]][c[2]].Insertions >= 9
       /\ Stats[c[1]][c[2]] = attributed[c]

\* the lines of the scan that the parser has consumed
Consumed == SubSeq(lines, 1, lineIdx - 1)

\* C3: at every position of a scan, each statistics line consumed so far has
\* been counted exactly once, and under the author of the most recent author
\* line before it: an author named by a line has an entry iff a statistics
\* line follows one of their lines, the entry holds the sums of those lines,
\* and the entries together hold the sums of all statistics lines.
C3_StatsLinesAttributedOnce ==
  pc \in {"parse", "accum"} =>
    LET ls == Consumed
        ks == StatsIdx(ls)
        named == {ls[j] : j \in AuthorIdx(ls)}
    IN /\ \A a \in named :
            /\ a \in DOMAIN stats <=> a \in ScanAuthors(ls)
            /\ a \in DOMAIN stats =>
                 stats[a] = <<ScanSum(ls, a).Insertions, ScanSum(ls, a).Deletions>>
       /\ SumOver([a \in DOMAIN stats |-> stats[a][1]], DOMAIN stats)
            = SumOver([k \in ks |-> InsertionsOf(ls[k])], ks)
       /\ SumOver([a \in DOMAIN stats |-> stats[a][2]], DOMAIN stats)
            = SumOver([k \in ks |-> DeletionsOf(ls[k])], ks)

\* author, 3/0, 1/1, author2, 3/0 parsed to author 4/1 and author2 3/0
C3_Witness ==
  /\ pc = "accum"
  /\ lines = <<AliceLine, Stat30, Stat11, BobLine, Stat30>>
  /\ DOMAIN stats = {AliceLine, BobLine}
  /\ stats[AliceLine] = <<4, 1>>
  /\ stats[BobLine] = <<3, 0>>

\* C4: a statistics line before any author line is a parse error: Stats never
\* holds an entry under the empty author key.
C4_NoEmptyAuthorKey == EmptyStr \notin DOMAIN Stats

\* the aggregate as a value
Aggregate == [Stats |-> Stats, totalInsertions |-> totalInsertions,
              totalDeletions |-> totalDeletions]

\* the scans of a run of two months: a month and an output of git
ScanInputs == {FirstDayOfMonth(now, k) : k \in 0..1} \X Outputs

\* C5: folding two scans into an aggregate a run has reached, in either
\* order, leaves the same aggregate, cells and totals, whatever the order of
\* the accumulation loops; as every permutation is a chain of exchanges of
\* neighbours, the scans of a run folded in any order give the same final
\* aggregate.
C5_FoldOrderIrrelevant ==
  pc \in {"loop", "print"} =>
    \A s1 \in ScanInputs, s2 \in ScanInputs :
      \A r1 \in processDir(Aggregate, s1[1], s1[2]),
         r2 \in processDir(Aggregate, s2[1], s2[2]) :
        \A r12 \in processDir(r1, s2[1], s2[2]),
           r21 \in processDir(r2, s1[1], s1[2]) : r12 = r21

\* after two scans, two further scans that differ, change the aggregate and
\* meet in one cell, folded in both orders
C5_Witness ==
  /\ pc = "print"
  /\ Cardinality(Succeeded) >= 2
  /\ Cells(Stats) # {}
  /\ \E s1 \in ScanInputs, s2 \in ScanInputs :
       /\ s1 # s2
       /\ \E r1 \in processDir(Aggregate, s1[1], s1[2]),
             r2 \in processDir(Aggregate, s2[1], s2[2]) :
            /\ r1 # Aggregate /\ r2 # Aggregate /\ r1 # r2
            /\ (Cells(r1.Stats) \cap Cells(r2.Stats)) \ Cells(Stats) # {}
            /\ \E r12 \in processDir(r1, s2[1], s2[2]),
                  r21 \in processDir(r2, s1[1], s1[2]) : r12 = r21 /\ r12 # r1

\* the subdirectories of the base path
Repos ==
  {JoinPath(baseDir, entries[k].name) : k \in {x \in DOMAIN entries : entries[x].isDir}}

\* C6: with -a, and the base path listed in every iteration, a failed scan
\* ends only itself: at the end of the run every subdirectory has been scanned
\* in every month iteration, and printStats has been given the aggregate that
\* holds the sums of all successful scans.
C6_FailedScanSkipsOnlyItself ==
  (pc = "done" /\ allRepos /\ ~listFailed) =>
    /\ \A k \in 0..(monthsBack - 1), d \in Repos :
         \E n \in 1..Len(scanLog) : scanLog[n].i = k /\ scanLog[n].dir = d
    /\ Len(reported) = 1
    /\ Cells(reported[1].Stats) = DOMAIN attributed
    /\ \A c \in DOMAIN attributed : reported[1].Stats[c[1]][c[2]] = attributed[c]

\* a failed scan followed by a successful scan of the next subdirectory in the
\* same month and by a successful scan in a later month, and a report
C6_Witness ==
  /\ pc = "done"
  /\ allRepos
  /\ \E k \in Failed :
       /\ k < Len(scanLog)
       /\ scanLog[k + 1].ok
       /\ scanLog[k + 1].i = scanLog[k].i
       /\ \E j \in Succeeded : scanLog[j].i > scanLog[k].i
  /\ Len(reported) = 1
  /\ Cells(reported[1].Stats) # {}

\* C7: without -a, a failed scan ends the run: it is the last invocation of
\* git, whatever the number of months still to scan.
C7_SingleModeFailureEndsRun ==
  ~allRepos =>
    \A k \in Failed : k = Len(scanLog) /\ pc = "done" /\ i = scanLog[k].i

\* the first of two months failed and the run is over with that one scan
C7_Witness ==
  /\ ~allRepos
  /\ monthsBack = 2
  /\ pc = "done"
  /\ Len(scanLog) = 1
  /\ Failed = {1}

\* C8: an invocation of git is never made for a (month iteration, directory)
\* pair that was scanned before, and a failed invocation returns to main at
\* once with Stats, the totals and the attributed sums as they were.
C8_FailedScanNoEffectNoRetry ==
  [][Len(scanLog') > Len(scanLog) =>
       LET e == scanLog'[Len(scanLog')] IN
         /\ \A k \in 1..Len(scanLog) :
              <<scanLog[k].i, scanLog[k].dir>> # <<e.i, e.dir>>
         /\ ~e.ok => /\ gb' = gb
                     /\ attributed' = attributed
                     /\ pc' \in {"dirloop", "done"}]_vars

\* a scan failed after another had succeeded, and the run went on to its end
\* with the cells as the successful scans left them
C8_Witness ==
  /\ pc = "done"
  /\ \E k \in Failed : \E j \in Succeeded : j < k
  /\ Cells(Stats) # {}
  /\ \A c \in Cells(Stats) : Stats[c[1]][c[2]] = attributed[c]

\* the run was ended by a failure that main treats as fatal
Aborted == listFailed \/ (~allRepos /\ Failed # {})

\* C9 as stated: every run that ends has given the aggregate to printStats
\* exactly once.
C9_ReportedExactlyOnce == pc = "done" => Len(reported) = 1

\* C9 amended: printStats is given the aggregate at most once; a run that
\* ends has given it exactly once unless a listing failure or, without -a, a
\* failed scan ended it, and then never; once given, the run is over and the
\* aggregate is the one that was given.
C9_ReportedOnceUnlessAborted ==
  /\ Len(reported) <= 1
  /\ pc = "done" => (Len(reported) = 1 <=> ~Aborted)
  /\ Len(reported) = 1 => (pc = "done" /\ reported[1] = Aggregate)

\* a run with a failed scan that still ended with its one report
C9_Witness ==
  /\ pc = "done"
  /\ Failed # {}
  /\ Succeeded # {}
  /\ Len(reported) = 1
  /\ reported[1] = Aggregate
  /\ Cells(Stats) # {}

\* C10: when the base path cannot be listed the run ends at once, with no
\* scan in that or a later month iteration, and with a non-zero exit status.
C10_ListFailureExitsNonZero ==
  listFailed =>
    /\ pc = "done"
    /\ \A k \in 1..Len(scanLog) : scanLog[k].i < i
    /\ exitCode # Running
    /\ exitCode # 0

\* the invocation of the scan in progress
LastScan == scanLog[Len(scanLog)]

\* the cells a step adds or changes
Touched(S, T) == {c \in Cells(T) : c \notin Cells(S) \/ T[c[1]][c[2]] # S[c[1]][c[2]]}

\* C11: every scan filters from the first to the last calendar day of one
\* (year, month), and every cell the scan adds to has the key of that same
\* (year, month); the key is a function of (year, month) alone.
C11_FilterMonthIsKeyMonth ==
  /\ [](/\ \A k \in 1..Len(scanLog) :
             LET e == scanLog[k] IN
               /\ e.since[3] = 1
               /\ e.until = <<e.since[1], e.since[2], DaysIn(e.since[1], e.since[2])>>
        /\ \A c1 \in Cells(Stats), c2 \in Cells(Stats) :
             (c1[2][1] = c2[2][1] /\ c1[2][2] = c2[2][2]) => c1[2] = c2[2])
  /\ [][pc = "accum" =>
          \A c \in Touched(Stats, Stats') :
            /\ c[2][1] = LastScan.since[1]
            /\ c[2][2] = LastScan.since[2]
            /\ c[2][3] = MonthNames[LastScan.since[2]]]_vars

\* two iterations have scanned January 2024 and December 2023, or twice
\* March 2024, and two authors have cells under the months scanned
C11_Witness ==
  /\ pc = "done"
  /\ \E j \in Succeeded, k \in Succeeded :
       /\ scanLog[j].i # scanLog[k].i
       /\ scanLog[k].until[3] = 31
       /\ \E c1 \in Cells(Stats), c2 \in Cells(Stats) :
            /\ c1[2][2] = scanLog[j].since[2]
            /\ c2[2][2] = scanLog[k].since[2]
            /\ c1[1] # c2[1]

\* what each statistics line of ClauseLines says: <<insertions, deletions>>
Said == (Stat30 :> <<3, 0>>) @@ (Stat11 :> <<1, 1>>) @@ (Stat012 :> <<0, 12>>)
          @@ (Stat00 :> <<0, 0>>)

\* the line names the unit of no clause of the pattern
NoClause(line, units) == \A k \in 1..Len(line) : line[k].w \notin units

\* C12: the turn of the loop on a statistics line adds 0 insertions when the
\* line has no insertions clause and 0 deletions when it has no deletions
\* clause, and adds the number of each clause that is there, to the totals and
\* to the entry of the current author.
C12_MissingClauseCountsZero ==
  [][(pc = "parse" /\ lineIdx <= Len(lines) /\ lines[lineIdx] \in DOMAIN Said) =>
       LET line == lines[lineIdx]
           before == GetCounts(stats, author)
       IN /\ NoClause(line, insertionRegex) => totalInsertions' = totalInsertions
          /\ NoClause(line, deletionRegex) => totalDeletions' = totalDeletions
          /\ totalInsertions' = totalInsertions + Said[line][1]
          /\ totalDeletions' = totalDeletions + Said[line][2]
          /\ stats'[author] = <<before[1] + Said[line][1], before[2] + Said[line][2]>>
    ]_vars

\* a line with insertions only, one with deletions only and one with neither
\* parsed to 3 insertions and 12 deletions
C12_Witness ==
  /\ pc = "accum"
  /\ lines = <<AliceLine, Stat30, Stat012, Stat00>>
  /\ stats[AliceLine] = <<3, 12>>
  /\ totalInsertions = 3
  /\ totalDeletions = 12

\* the month keys of an aggregate
MonthKeys(S) == {c[2] : c \in Cells(S)}

\* month key a is of an earlier calendar month than b
EarlierMonth(a, b) == a[1] < b[1] \/ (a[1] = b[1] /\ a[2] < b[2])

\* C13: the report has one block for each month key of Stats, the blocks in
\* strictly ascending lexical order of the key (none repeated), and each block
\* lists exactly the authors with a cell in that month, with the cell's
\* insertions, in non-increasing order of insertions.
C13_BlocksAscendingRowsDescending ==
  /\ (Len(reported) = 1 /\ Cells(Stats) # {}) => Len(printed) = 1
  /\ Len(printed) = 1 =>
       LET B == printed[1].blocks IN
         /\ {B[k].month : k \in DOMAIN B} = MonthKeys(Stats)
         /\ Len(B) = Cardinality(MonthKeys(Stats))
         /\ \A k \in 1..(Len(B) - 1) :
              /\ StringLess(MonthChars(B[k].month), MonthChars(B[k + 1].month))
              /\ EarlierMonth(B[k].month, B[k + 1].month)
         /\ \A k \in DOMAIN B :
              LET R == B[k].rows
                  as == {a \in DOMAIN Stats : B[k].month \in DOMAIN Stats[a]}
              IN /\ {R[j].Author : j \in DOMAIN R} = as
                 /\ Len(R) = Cardinality(as)
                 /\ \A j \in DOMAIN R :
                      R[j].Insertions = Stats[R[j].Author][B[k].month].Insertions
                 /\ \A j \in 1..(Len(R) - 1) : R[j].Insertions >= R[j + 1].Insertions

\* a report of two months, December 2023 before January 2024, one of them
\* with three authors of different insertions
C13_Witness ==
  /\ Len(printed) = 1
  /\ Len(printed[1].blocks) = 2
  /\ printed[1].blocks[1].month[1] < printed[1].blocks[2].month[1]
  /\ \E k \in 1..2 :
       LET R == printed[1].blocks[k].rows IN
         /\ Len(R) = 3
         /\ R[1].Insertions > R[2].Insertions
         /\ R[2].Insertions > R[3].Insertions

\* the sum of the subtotals of a sequence of month blocks
SumSubtotals(q) == SumOver([k \in DOMAIN q |-> q[k].totalInsertions], DOMAIN q)

\* the sum of the totals of a sequence of developers
SumDevelopers(q) == SumOver([k \in DOMAIN q |-> q[k].Insertions], DOMAIN q)

\* C14: in every report the grand total, which is the running
\* totalInsertions, equals the sum of the months' subtotals and the sum of
\* the developers' totals, which are computed from the cells.
C14_GrandTotalEqualsSums ==
  Len(printed) = 1 =>
    /\ printed[1].total = totalInsertions
    /\ printed[1].total = SumSubtotals(printed[1].blocks)
    /\ printed[1].total = SumDevelopers(printed[1].developers)

\* a report of two months and two developers, one of them with insertions in
\* both months
C14_Witness ==
  /\ Len(printed) = 1
  /\ Len(printed[1].blocks) = 2
  /\ Len(printed[1].developers) >= 2
  /\ \E a \in DOMAIN Stats :
       /\ Cardinality(DOMAIN Stats[a]) = 2
       /\ \A m \in DOMAIN Stats[a] : Stats[a][m].Insertions > 0
  /\ printed[1].total = SumSubtotals(printed[1].blocks)
  /\ printed[1].total > 0

\* the lines of the scan a step belongs to: those it reads, or is working on
ScanLines == IF pc = "scan" THEN lines' ELSE lines

\* C15: every step of a scan whose output has no statistics line, the empty
\* output included, leaves the aggregate as it was: no author and no month is
\* added to Stats and both running totals keep their values.
C15_NoStatsLineNoChange ==
  [][(pc \in {"scan", "parse", "accum"} /\ StatsIdx(ScanLines) = {}) => gb' = gb]_vars

\* a scan that printed only an author line has been parsed and accumulated
\* into an aggregate that has cells, none of them of that author
C15_Witness ==
  /\ pc = "accum"
  /\ todo = {}
  /\ lines = <<AliceLine, EmptyStr>>
  /\ lineIdx = 3
  /\ author = AliceLine
  /\ Cells(Stats) # {}
  /\ AliceLine \notin DOMAIN Stats
  /\ totalInsertions + totalDeletions > 0

\* the calendar month k months before the month of day t
MonthsBefore(t, k) == NormMonth(t.y, t.m - k)

\* C16: iteration i scans the calendar month exactly i months before the
\* current one, whatever the day of the month the run starts on, so that no
\* directory is scanned twice for one month and no month of the window is
\* left out.
C16_IterationTargetsMonthBefore ==
  /\ \A k \in 1..Len(scanLog) :
       LET e == scanLog[k]
           target == MonthsBefore(now, e.i)
       IN e.since = <<target.y, target.m, 1>>
  /\ \A j \in 1..Len(scanLog), k \in 1..Len(scanLog) :
       (scanLog[j].dir = scanLog[k].dir /\ scanLog[j].i # scanLog[k].i)
         => scanLog[j].since # scanLog[k].since

\* the counts of the statistics lines the scan in progress has parsed so far
ParsedInsertions ==
  SumOver([k \in StatsIdx(Consumed) |-> InsertionsOf(Consumed[k])], StatsIdx(Consumed))
ParsedDeletions ==
  SumOver([k \in StatsIdx(Consumed) |-> DeletionsOf(Consumed[k])], StatsIdx(Consumed))

\* the counts of the authors the accumulation loop has yet to visit
PendingInsertions == SumOver([a \in todo |-> stats[a][1]], todo)
PendingDeletions == SumOver([a \in todo |-> stats[a][2]], todo)

\* by how much the running totals are ahead of the cells
AheadInsertions == totalInsertions - SumInsertions(Stats)
AheadDeletions == totalDeletions - SumDeletions(Stats)

\* C17 as stated: in every state of a scan before its accumulation has
\* finished, the totals are ahead of the cell sums by exactly the counts
\* parsed so far in that scan, and they are equal once it has finished.
C17_AheadByParsedSoFar ==
  /\ (pc = "parse" \/ (pc = "accum" /\ todo # {})) =>
       /\ AheadInsertions = ParsedInsertions
       /\ AheadDeletions = ParsedDeletions
  /\ (pc = "accum" /\ todo = {}) =>
       /\ AheadInsertions = 0
       /\ AheadDeletions = 0

\* C17: the totals are never behind the cell sums.  While the lines of a scan
\* are read they are ahead by exactly the counts parsed so far; while the
\* scan's authors are accumulated they are ahead by exactly the counts of
\* the authors not visited yet, which at the start of the accumulation are
\* all the counts parsed; they are equal again when the last author has been
\* visited.
C17_AheadByUnfolded ==
  /\ AheadInsertions >= 0
  /\ AheadDeletions >= 0
  /\ pc = "parse" =>
       /\ AheadInsertions = ParsedInsertions
       /\ AheadDeletions = ParsedDeletions
  /\ pc = "accum" =>
       /\ AheadInsertions = PendingInsertions
       /\ AheadDeletions = PendingDeletions
       /\ todo = DOMAIN stats =>
            /\ PendingInsertions = ParsedInsertions
            /\ PendingDeletions = ParsedDeletions
       /\ todo = {} => (AheadInsertions = 0 /\ AheadDeletions = 0)

\* a scan of two authors halfway through its accumulation, into an aggregate
\* that had cells before: alice's 4 insertions and 1 deletion are in the
\* cells, bob's 12 deletions are not
C17_Witness ==
  /\ pc = "accum"
  /\ todo = {BobLine}
  /\ DOMAIN stats = {AliceLine, BobLine}
  /\ Len(scanLog) > 1
  /\ ParsedInsertions = 4
  /\ ParsedDeletions = 13
  /\ AheadInsertions = 0
  /\ AheadDeletions = 12

\* N x D: the months asked for times the subdirectories of the base path,
\* or times 1 without -a
MaxScans == monthsBack * (IF allRepos THEN Cardinality(Repos) ELSE 1)

\* C18: a scan is invoked only when no other is in progress, and the scan
\* being parsed or accumulated is the one invoked last; no (iteration,
\* directory) pair is scanned twice; there are never more than N x D scans;
\* and every run ends.
C18_SequentialBoundedTerminating ==
  /\ [](/\ Len(scanLog) <= MaxScans
        /\ \A j \in 1..Len(scanLog), k \in 1..Len(scanLog) :
             (scanLog[j].i = scanLog[k].i /\ scanLog[j].dir = scanLog[k].dir) => j = k
        /\ pc \in {"parse", "accum"} =>
             (LastScan.ok /\ LastScan.i = i /\ LastScan.dir = dir)
        /\ pc \notin {"parse", "accum"} =>
             (lines = <<>> /\ stats = EmptyMap /\ todo = {}))
  /\ [][Len(scanLog') > Len(scanLog) =>
          /\ pc = "scan"
          /\ Len(scanLog') = Len(scanLog) + 1]_vars
  /\ <>(pc = "done")

\* a run of two months over two repositories has ended after its four
\* scans, one of them failed, and has printed its report
C18_Witness ==
  /\ pc = "done"
  /\ allRepos
  /\ monthsBack = 2
  /\ Cardinality(Repos) = 2
  /\ Len(scanLog) = MaxScans
  /\ Failed # {}
  /\ Len(printed) = 1

====
